---- MODULE Spec2Model ----
(***************************************************************************)
(* The client/module synchronization protocol of tsffs: the fuzzing       *)
(* client (confuse_module/src/client/mod.rs), the SIMICS module           *)
(* (tsffs_module/src/module/mod.rs), the two message channels between     *)
(* them and the simulated target the module drives.                       *)
(*                                                                         *)
(* A handler that blocks in a receive is split at the receive: the        *)
(* position it waits at is kept in cctl.pc (client) and mctl.pc (module). *)
(* Everything else a handler does between two receives is one step.       *)
(***************************************************************************)
EXTENDS Integers, Sequences, FiniteSets, TLC

\* ------------------------------------------------------------------ bounds
\* longest test case the client passes to run()
MaxInputLen == 2
\* largest buffer size the harness reports in rdi at the first Magic::Start
MaxBufferSize == 1
\* number of Run messages the client sends in a session
MaxRuns == 2
\* number of simulation-stopped callbacks in a session
MaxStops == 3

\* last_start_processor_number as Module::init sets it
NoProcessor == -1

\* processor numbers of the simulated machine
Procs == {0, 1}
\* values read from rsi: the buffer address at the first Magic::Start, the
\* result at a Magic::Stop
RegValues == {0, 1}
\* values read from rdi at the first Magic::Start
BufferSizes == 0 .. MaxBufferSize
\* target memory: room for the longest input at the highest buffer address
Addrs == 0 .. (MaxInputLen + 2)
\* fault numbers the host registers: the general protection fault
Faults == {13}

\* test cases: byte i of an input holds i, so that a byte tells its offset
Inputs == {[i \in 1 .. n |-> i] : n \in 0 .. MaxInputLen}

Range(s) == {s[i] : i \in DOMAIN s}
Min(a, b) == IF a < b THEN a ELSE b

\* ----------------------------------------------------------- stop reasons
\* StopReason, as one record shape; tag "None" is Option::None.
Reason(tag, kind, code, val, fault, proc) ==
    [tag |-> tag, kind |-> kind, code |-> code, val |-> val, fault |-> fault, proc |-> proc]
None == Reason("None", "-", "-", -1, 0, NoProcessor)
MagicStart(code, proc) == Reason("Magic", "Start", code, -1, 0, proc)
\* Magic::Stop((code, payload)): val = -1 is a None payload
MagicStop(code, val, proc) == Reason("Magic", "Stop", code, val, 0, proc)
SimulationExit(proc) == Reason("SimulationExit", "-", "-", -1, 0, proc)
Crash(fault, proc) == Reason("Crash", "-", "-", -1, fault, proc)
TimeOut == Reason("TimeOut", "-", "-", -1, 0, NoProcessor)
Error(proc) == Reason("Error", "-", "-", -1, 0, proc)

\* Magic::try_from(parameter): the two harness markers are recognized
MagicParameters == {"start", "stop", "other"}
MagicTryFrom(parameter, proc) ==
    CASE parameter = "start" -> MagicStart(parameter, proc)
      [] parameter = "stop" -> MagicStop(parameter, -1, proc)
      [] OTHER -> None

\* --------------------------------------------------------------- messages
\* ClientMessage and ModuleMessage, as one record shape. The field run is
\* not part of the wire format: it numbers the Run messages of a session so
\* that a Stopped reply can be matched with the Run it answers.
Message(type, input, reason, run) ==
    [type |-> type, input |-> input, reason |-> reason, run |-> run]
Initialize == Message("Initialize", <<>>, None, 0)
Reset == Message("Reset", <<>>, None, 0)
Exit == Message("Exit", <<>>, None, 0)
Run(input, id) == Message("Run", input, None, id)
Initialized == Message("Initialized", <<>>, None, 0)
Ready == Message("Ready", <<>>, None, 0)
Stopped(reason, id) == Message("Stopped", <<>>, reason, id)

ClientVariants == {"Initialize", "Run", "Reset", "Exit"}
ModuleVariants == {"Initialized", "Ready", "Stopped"}
Variants == ClientVariants \cup ModuleVariants

\* ---------------------------------------------------------- state machine
States == {"Uninitialized", "HalfInitialized", "Initialized", "HalfReady",
           "Ready", "Running", "Stopped", "Done"}

\* The next state for (state, message variant), "Invalid" when the event is
\* not permitted. Done is terminal: nothing is permitted from it.
Transition(state, variant) ==
    CASE state = "Done" -> "Invalid"
      [] variant = "Exit" -> "Done"
      [] variant = "Initialize" /\ state = "Uninitialized" -> "HalfInitialized"
      [] variant = "Initialized" /\ state = "HalfInitialized" -> "Initialized"
      [] variant = "Reset" /\ state \in {"Initialized", "Stopped"} -> "HalfReady"
      [] variant = "Ready" /\ state = "HalfReady" -> "Ready"
      [] variant = "Run" /\ state = "Ready" -> "Running"
      [] variant = "Stopped" /\ state = "Running" -> "Stopped"
      [] OTHER -> "Invalid"

\* State::consume / ModuleStateMachine::consume: validate and apply
consume(state, variant) ==
    LET next == Transition(state, variant)
    IN  IF next = "Invalid" THEN [ok |-> FALSE, state |-> state]
        ELSE [ok |-> TRUE, state |-> next]

\* one validated event, as the monitor records it
Event(side, dir, variant, from, to, ok, sent) ==
    [side |-> side, dir |-> dir, msg |-> variant, from |-> from, to |-> to,
     ok |-> ok, sent |-> sent]

\* ------------------------------------------------------------------ state
VARIABLES
    client,   \* struct Client: [state]
    cctl,     \* the client's position: [pc, call, res]
    c2m,      \* channel client -> module (Client.tx, Module.rx)
    m2c,      \* channel module -> client (Module.tx, Client.rx)
    module,   \* struct Module: state, stop_reason, iterations, buffer_address,
              \*   buffer_size, last_start_processor_number, processors, and
              \*   the faults its detector listens to
    mctl,     \* the module's position: [pc, err, processor_number, run]
    target,   \* the simulated target: [sim, mem, snapshot, rdi]
    mon       \* history of the run, read by the properties only

vars == <<client, cctl, c2m, m2c, module, mctl, target, mon>>

ZeroMem == [a \in Addrs |-> 0]
\* target.rdi: the last value the module set the size register to, and on
\* which processor
NoWrite == [proc |-> NoProcessor, value |-> 0]

\* mon.stop: what the last step, if it was the simulation-stopped callback,
\* found in the detector and in the module's pending reason, the reason it
\* went on with, whether it got to notify the detector and the tracer, and
\* the value it read from rsi to enrich a Magic::Stop (-1: not read)
NoStop == [fired |-> FALSE, detector |-> None, pending |-> None, reason |-> None,
           notified |-> FALSE, rsi |-> -1]

\* mon.magic: the arguments of the last step, if it was the magic-instruction
\* callback
NoMagic == [fired |-> FALSE, processor_number |-> NoProcessor, parameter |-> "-"]

\* the monitor at the start of a step: what it holds about the step before
\* is dropped
LastStep(m) ==
    [m EXCEPT !.log = <<>>, !.stop = NoStop, !.magic = NoMagic, !.input = <<>>]

Init ==
    /\ client = [state |-> "Uninitialized"]
    /\ cctl = [pc |-> "idle", call |-> "none", res |-> "none"]
    /\ c2m = <<>>
    /\ m2c = <<>>
    /\ module = [state |-> "Uninitialized",
                 processors |-> {},
                 detector |-> [faults |-> {}],
                 stop_reason |-> None,
                 iterations |-> 0,
                 buffer_address |-> 0,
                 buffer_size |-> 0,
                 last_start_processor_number |-> NoProcessor]
    /\ mctl = [pc |-> "new", err |-> "none", processor_number |-> NoProcessor, run |-> FALSE]
    /\ target = [sim |-> "stopped", mem |-> ZeroMem,
                 rdi |-> NoWrite,
                 snapshot |-> [taken |-> FALSE, mem |-> ZeroMem, rdi |-> NoWrite]]
    /\ mon = [log |-> <<>>,
              runs |-> 0, ret_run |-> 0, cur_run |-> 0,
              snapshots |-> 0, restores |-> 0, stopped_sent |-> 0, runs_received |-> 0,
              runs_since_stopped |-> 0, stopped_gap |-> 0, stops |-> 0,
              early_timeout |-> FALSE,
              stop |-> NoStop,
              sent |-> 0,
              magic |-> NoMagic,
              input |-> <<>>]

ModuleTerminated == mctl.pc \in {"failed", "quit0", "quit1"}

\* ----------------------------------------------------------------- client
\* ConfuseClient::send_msg: apply the send transition, then transmit. A
\* rejected event transmits nothing; a send to a module that has terminated
\* fails on the disconnected channel.
client_send_msg(state, tx, msg, connected) ==
    LET r == consume(state, msg.type)
        sent == r.ok /\ connected
    IN  [res |-> IF ~r.ok THEN "ProtocolViolation"
                 ELSE IF ~connected THEN "TransportFailure" ELSE "ok",
         state |-> r.state,
         tx |-> IF sent THEN Append(tx, msg) ELSE tx,
         ev |-> Event("client", "send", msg.type, state, r.state, r.ok, sent)]

\* ConfuseClient::recv_msg: take the next message, apply the receive transition
client_recv_msg(state, rx) ==
    LET msg == Head(rx)
        r == consume(state, msg.type)
    IN  [res |-> IF r.ok THEN "ok" ELSE "ProtocolViolation",
         state |-> r.state,
         rx |-> Tail(rx),
         msg |-> msg,
         ev |-> Event("client", "recv", msg.type, state, r.state, r.ok, FALSE)]

\* The sending half of a client call: the call blocks at wait for its reply
\* ("idle": the call returns without receiving).
ClientCall(call, msg, wait) ==
    /\ cctl.pc = "idle"
    /\ LET r == client_send_msg(client.state, c2m, msg, ~ModuleTerminated)
           blocks == r.res = "ok" /\ wait # "idle"
       IN  /\ client' = [client EXCEPT !.state = r.state]
           /\ c2m' = r.tx
           /\ cctl' = [pc |-> IF blocks THEN wait ELSE "idle",
                       call |-> call,
                       res |-> IF blocks THEN "pending" ELSE r.res]
           /\ mon' = [LastStep(mon) EXCEPT !.log = <<r.ev>>,
                                 !.runs = IF msg.type = "Run" /\ r.ev.sent THEN @ + 1 ELSE @]
    /\ UNCHANGED <<m2c, module, mctl, target>>

ClientInitialize == ClientCall("initialize", Initialize, "wait_initialized")

ClientReset == ClientCall("reset", Reset, "wait_ready")

\* run() that returns without waiting for Stopped
ClientRunNoReply(input) ==
    /\ mon.runs < MaxRuns
    /\ ClientCall("run", Run(input, mon.runs + 1), "idle")
ClientRun(input) ==
    /\ mon.runs < MaxRuns
    /\ ClientCall("run", Run(input, mon.runs + 1), "wait_stopped")

\* exit() that transmits Exit without asking the state machine
ClientExitUnvalidated ==
    /\ cctl.pc = "idle"
    /\ c2m' = Append(c2m, Exit)
    /\ cctl' = [pc |-> "idle", call |-> "exit", res |-> "ok"]
    /\ mon' = [LastStep(mon) EXCEPT
                          !.log = <<Event("client", "send", "Exit", client.state,
                                          client.state, TRUE, TRUE)>>]
    /\ UNCHANGED <<client, m2c, module, mctl, target>>
\* exit() whose send is permitted from every state, Done included
ClientExitFromAnyState ==
    /\ cctl.pc = "idle"
    /\ LET sent == ~ModuleTerminated
       IN  /\ client' = [client EXCEPT !.state = "Done"]
           /\ c2m' = IF sent THEN Append(c2m, Exit) ELSE c2m
           /\ cctl' = [pc |-> "idle", call |-> "exit",
                       res |-> IF sent THEN "ok" ELSE "TransportFailure"]
           /\ mon' = [LastStep(mon) EXCEPT
                          !.log = <<Event("client", "send", "Exit", client.state,
                                          "Done", TRUE, sent)>>]
    /\ UNCHANGED <<m2c, module, mctl, target>>
\* exit() that blocks for a reply like reset()
ClientExitAwaitsReply == ClientCall("exit", Exit, "wait_ready")
ClientExit == ClientCall("exit", Exit, "idle")

Awaited(pc) ==
    CASE pc = "wait_initialized" -> "Initialized"
      [] pc = "wait_ready" -> "Ready"
      [] OTHER -> "Stopped"

\* the receiving half without the state machine's check of the reply
ClientReplyUnvalidated ==
    /\ cctl.pc \in {"wait_initialized", "wait_ready", "wait_stopped"}
    /\ m2c # <<>>
    /\ LET msg == Head(m2c)
           res == IF msg.type = Awaited(cctl.pc) THEN "ok" ELSE "UnexpectedReply"
       IN  /\ m2c' = Tail(m2c)
           /\ cctl' = [cctl EXCEPT !.pc = "idle", !.res = res]
           /\ mon' = [LastStep(mon) EXCEPT
                                 !.log = <<Event("client", "recv", msg.type, client.state,
                                                 client.state, TRUE, FALSE)>>]
    /\ UNCHANGED <<client, c2m, module, mctl, target>>
\* the receiving half that keeps waiting when the module has terminated
ClientReplyNoDisconnect ==
    /\ cctl.pc \in {"wait_initialized", "wait_ready", "wait_stopped"}
    /\ m2c # <<>>
    /\ LET r == client_recv_msg(client.state, m2c)
           res == IF r.res # "ok" THEN r.res
                  ELSE IF r.msg.type = Awaited(cctl.pc) THEN "ok"
                  ELSE "UnexpectedReply"
       IN  /\ client' = [client EXCEPT !.state = r.state]
           /\ m2c' = r.rx
           /\ cctl' = [cctl EXCEPT !.pc = "idle", !.res = res]
           /\ mon' = [LastStep(mon) EXCEPT !.log = <<r.ev>>,
                                 !.ret_run = IF res = "ok" /\ r.msg.type = "Stopped"
                                             THEN r.msg.run ELSE @]
    /\ UNCHANGED <<c2m, module, mctl, target>>
\* The receiving half of initialize, reset and run
ClientReply ==
    /\ cctl.pc \in {"wait_initialized", "wait_ready", "wait_stopped"}
    /\ \/ /\ m2c # <<>>
          /\ LET r == client_recv_msg(client.state, m2c)
                 res == IF r.res # "ok" THEN r.res
                        ELSE IF r.msg.type = Awaited(cctl.pc) THEN "ok"
                        ELSE "UnexpectedReply"
             IN  /\ client' = [client EXCEPT !.state = r.state]
                 /\ m2c' = r.rx
                 /\ cctl' = [cctl EXCEPT !.pc = "idle", !.res = res]
                 /\ mon' = [LastStep(mon) EXCEPT !.log = <<r.ev>>,
                                       !.ret_run = IF res = "ok" /\ r.msg.type = "Stopped"
                                                   THEN r.msg.run ELSE @]
       \/ /\ m2c = <<>>
          /\ ModuleTerminated
          /\ cctl' = [cctl EXCEPT !.pc = "idle", !.res = "TransportFailure"]
          /\ mon' = LastStep(mon)
          /\ UNCHANGED <<client, m2c>>
    /\ UNCHANGED <<c2m, module, mctl, target>>

\* ----------------------------------------------------------------- module
\* The module's code runs on a world w = [module, tx, rx, ctl, target, mon].
\* A handler starts with ctl.pc = "active"; a step of it that fails, quits or
\* blocks changes ctl.pc, and the steps after it leave the world alone.
World ==
    [module |-> module, tx |-> m2c, rx |-> c2m, ctl |-> mctl, target |-> target, mon |-> mon]

Install(w) ==
    /\ module' = w.module
    /\ m2c' = w.tx
    /\ c2m' = w.rx
    /\ mctl' = w.ctl
    /\ target' = w.target
    /\ mon' = w.mon
    /\ UNCHANGED <<client, cctl>>

Begin(w) == [w EXCEPT !.ctl.pc = "active", !.mon = LastStep(@)]
Active(w) == w.ctl.pc = "active"
\* an Err returned to the callback wrapper, which unwraps it
Fail(w, err) == [w EXCEPT !.ctl.pc = "failed", !.ctl.err = err]
\* the handler returns to the simulation host, or blocks in a receive
Finish(w, pc) == IF Active(w) THEN [w EXCEPT !.ctl.pc = pc] ELSE w
\* simics_api::quit(status)
quit(w, status) == [w EXCEPT !.ctl.pc = IF status = 0 THEN "quit0" ELSE "quit1"]

\* send_msg that transmits whatever the state machine answers
send_msg_unchecked(w, msg) ==
    IF ~Active(w) THEN w
    ELSE LET r == consume(w.module.state, msg.type)
             ev == Event("module", "send", msg.type, w.module.state, r.state, r.ok, TRUE)
         IN  [w EXCEPT !.module.state = r.state,
                       !.tx = Append(@, msg),
                       !.mon.sent = @ + 1,
                       !.mon.log = Append(@, ev),
                       !.mon.stopped_sent = IF msg.type = "Stopped" THEN @ + 1 ELSE @,
                       !.mon.stopped_gap = IF msg.type = "Stopped"
                                           THEN w.mon.runs_since_stopped ELSE @,
                       !.mon.runs_since_stopped = IF msg.type = "Stopped" THEN 0 ELSE @]
\* send_msg that validates the message and does not keep the new state
send_msg_stale_state(w, msg) ==
    IF ~Active(w) THEN w
    ELSE LET r == consume(w.module.state, msg.type)
             ev == Event("module", "send", msg.type, w.module.state, w.module.state, r.ok, r.ok)
             logged == [w EXCEPT !.mon.log = Append(@, ev)]
         IN  IF ~r.ok THEN Fail(logged, "ProtocolViolation")
             ELSE [logged EXCEPT !.tx = Append(@, msg),
                                 !.mon.sent = @ + 1,
                                 !.mon.stopped_sent = IF msg.type = "Stopped" THEN @ + 1 ELSE @,
                                 !.mon.stopped_gap = IF msg.type = "Stopped"
                                                     THEN w.mon.runs_since_stopped ELSE @,
                                 !.mon.runs_since_stopped = IF msg.type = "Stopped" THEN 0 ELSE @]
\* Module::send_msg
send_msg(w, msg) ==
    IF ~Active(w) THEN w
    ELSE LET r == consume(w.module.state, msg.type)
             ev == Event("module", "send", msg.type, w.module.state, r.state, r.ok, r.ok)
             logged == [w EXCEPT !.mon.log = Append(@, ev)]
         IN  IF ~r.ok THEN Fail(logged, "ProtocolViolation")
             ELSE [logged EXCEPT !.module.state = r.state,
                                 !.tx = Append(@, msg),
                                 !.mon.sent = @ + 1,
                                 !.mon.stopped_sent = IF msg.type = "Stopped" THEN @ + 1 ELSE @,
                                 !.mon.stopped_gap = IF msg.type = "Stopped"
                                                     THEN w.mon.runs_since_stopped ELSE @,
                                 !.mon.runs_since_stopped = IF msg.type = "Stopped" THEN 0 ELSE @]

\* recv_msg that hands Exit to the state machine like any other message
recv_msg_exit_consumed(w) ==
    IF ~Active(w) THEN w
    ELSE LET msg == Head(w.rx)
             taken == [w EXCEPT !.rx = Tail(@)]
             r == consume(w.module.state, msg.type)
             ev == Event("module", "recv", msg.type, w.module.state, r.state, r.ok, FALSE)
             logged == [taken EXCEPT !.mon.log = Append(@, ev)]
         IN  IF ~r.ok THEN Fail(logged, "ProtocolViolation")
             ELSE [logged EXCEPT !.module.state = r.state,
                                 !.mon.runs_received = IF msg.type = "Run" THEN @ + 1 ELSE @,
                                 !.mon.runs_since_stopped = IF msg.type = "Run" THEN @ + 1 ELSE @,
                                 !.mon.cur_run = IF msg.type = "Run" THEN msg.run ELSE @,
                                 !.mon.input = msg.input]
\* Module::recv_msg, once a message is there. Exit quits before the state
\* machine sees it.
recv_msg(w) ==
    IF ~Active(w) THEN w
    ELSE LET msg == Head(w.rx)
             taken == [w EXCEPT !.rx = Tail(@)]
             r == consume(w.module.state, msg.type)
             ev == Event("module", "recv", msg.type, w.module.state, r.state, r.ok, FALSE)
             logged == [taken EXCEPT !.mon.log = Append(@, ev)]
         IN  IF msg.type = "Exit" THEN quit(taken, 0)
             ELSE IF ~r.ok THEN Fail(logged, "ProtocolViolation")
             ELSE [logged EXCEPT !.module.state = r.state,
                                 !.mon.runs_received = IF msg.type = "Run" THEN @ + 1 ELSE @,
                                 !.mon.runs_since_stopped = IF msg.type = "Run" THEN @ + 1 ELSE @,
                                 !.mon.cur_run = IF msg.type = "Run" THEN msg.run ELSE @,
                                 !.mon.input = msg.input]

\* `if !matches!(msg, expected) { bail!(..) }` after a receive
expect(w, msg, variant) ==
    IF Active(w) /\ msg.type # variant THEN Fail(w, "UnexpectedMessage") ELSE w

\* simics_api::continue_simulation_alone
continue_simulation_alone(w) ==
    IF ~Active(w) THEN w ELSE [w EXCEPT !.target.sim = "running"]

\* simics_api::save_micro_checkpoint
save_micro_checkpoint(w) ==
    IF ~Active(w) THEN w
    ELSE [w EXCEPT !.target.snapshot = [taken |-> TRUE, mem |-> w.target.mem,
                                        rdi |-> w.target.rdi],
                   !.mon.snapshots = @ + 1]

\* simics_api::restore_micro_checkpoint(0) and discard_future
restore_micro_checkpoint(w) ==
    IF ~Active(w) THEN w
    ELSE [w EXCEPT !.target.mem = IF w.target.snapshot.taken
                                  THEN w.target.snapshot.mem ELSE @,
                   !.target.rdi = IF w.target.snapshot.taken
                                  THEN w.target.snapshot.rdi ELSE @,
                   !.mon.restores = @ + 1]

\* Vec::truncate
truncate(input, len) == SubSeq(input, 1, Min(Len(input), len))

\* Processor::write_bytes
write_bytes(mem, address, bytes) ==
    [a \in Addrs |-> IF a >= address /\ a < address + Len(bytes)
                     THEN bytes[a - address + 1] ELSE mem[a]]

\* `self.processors.get_mut(&n).with_context(..)?`
get_processor(w, processor_number) ==
    IF Active(w) /\ processor_number \notin w.module.processors
    THEN Fail(w, "NoProcessor") ELSE w

\* Module::initialize, from the arrival of the first message
initialize(w) ==
    LET msg == Head(w.rx)
        received == expect(recv_msg(w), msg, "Initialize")
    IN  send_msg(received, Initialized)

\* Module::reset_and_run up to its first receive
reset_and_run(w, processor_number) ==
    IF ~Active(w) THEN w
    ELSE [w EXCEPT !.ctl.pc = "rr_reset", !.ctl.processor_number = processor_number]

\* the first half of the cycle that resumes the target once Ready is sent
reset_and_run_reset_resumes(w) ==
    LET msg == Head(w.rx)
        received == expect(recv_msg(w), msg, "Reset")
        restored == restore_micro_checkpoint(received)
        replied == send_msg(restored, Ready)
    IN  Finish(continue_simulation_alone(replied), "rr_run")
\* the first half of the cycle that goes on to the receive of Run without
\* answering Reset
reset_and_run_reset_unanswered(w) ==
    LET msg == Head(w.rx)
        received == expect(recv_msg(w), msg, "Reset")
        restored == restore_micro_checkpoint(received)
    IN  Finish(restored, "rr_run")
\* Module::reset_and_run from the arrival of Reset to the receive of Run
reset_and_run_reset(w) ==
    LET msg == Head(w.rx)
        received == expect(recv_msg(w), msg, "Reset")
        restored == restore_micro_checkpoint(received)
        replied == send_msg(restored, Ready)
    IN  Finish(replied, "rr_run")

\* the second half of the cycle with the target resumed before the input is
\* written
reset_and_run_run_resume_first(w) ==
    LET msg == Head(w.rx)
        received == expect(recv_msg(w), msg, "Run")
        input == truncate(msg.input, w.module.buffer_size)
        resumed == continue_simulation_alone(received)
        found == get_processor(resumed, w.ctl.processor_number)
        written == IF ~Active(found) THEN found
                   ELSE [found EXCEPT
                           !.target.mem = write_bytes(@, w.module.buffer_address, input),
                           !.target.rdi = [proc |-> w.ctl.processor_number,
                                           value |-> Len(input)],
                           !.module.stop_reason = None]
    IN  Finish(written, "host")
\* the second half of the cycle that leaves the pending reason in place
reset_and_run_run_keeps_reason(w) ==
    LET msg == Head(w.rx)
        received == expect(recv_msg(w), msg, "Run")
        input == truncate(msg.input, w.module.buffer_size)
        found == get_processor(received, w.ctl.processor_number)
        written == IF ~Active(found) THEN found
                   ELSE [found EXCEPT
                           !.target.mem = write_bytes(@, w.module.buffer_address, input),
                           !.target.rdi = [proc |-> w.ctl.processor_number,
                                           value |-> Len(input)]]
    IN  Finish(continue_simulation_alone(written), "host")
\* the second half of the cycle that reports the length the client sent
reset_and_run_run_full_length(w) ==
    LET msg == Head(w.rx)
        received == expect(recv_msg(w), msg, "Run")
        input == truncate(msg.input, w.module.buffer_size)
        found == get_processor(received, w.ctl.processor_number)
        written == IF ~Active(found) THEN found
                   ELSE [found EXCEPT
                           !.target.mem = write_bytes(@, w.module.buffer_address, input),
                           !.target.rdi = [proc |-> w.ctl.processor_number,
                                           value |-> Len(msg.input)],
                           !.module.stop_reason = None]
    IN  Finish(continue_simulation_alone(written), "host")
\* Module::reset_and_run from the arrival of Run to its return
reset_and_run_run(w) ==
    LET msg == Head(w.rx)
        received == expect(recv_msg(w), msg, "Run")
        input == truncate(msg.input, w.module.buffer_size)
        found == get_processor(received, w.ctl.processor_number)
        written == IF ~Active(found) THEN found
                   ELSE [found EXCEPT
                           !.target.mem = write_bytes(@, w.module.buffer_address, input),
                           !.target.rdi = [proc |-> w.ctl.processor_number,
                                           value |-> Len(input)],
                           !.module.stop_reason = None]
    IN  Finish(continue_simulation_alone(written), "host")

\* the Magic::Start branch without the count of the first iteration
on_magic_start_uncounted(w, processor_number, rsi, rdi) ==
    IF w.module.iterations = 0
    THEN LET found == get_processor(w, processor_number)
             sized == IF ~Active(found) THEN found
                      ELSE [found EXCEPT !.module.buffer_address = rsi,
                                         !.module.buffer_size = rdi]
         IN  reset_and_run(save_micro_checkpoint(sized), processor_number)
    ELSE continue_simulation_alone(
             [w EXCEPT !.module.iterations = @ + 1,
                       !.module.stop_reason = None,
                       !.module.last_start_processor_number = processor_number])
\* the Magic::Start branch that records the processor on no iteration
on_magic_start_unrecorded(w, processor_number, rsi, rdi) ==
    IF w.module.iterations = 0
    THEN LET counted == [w EXCEPT !.module.iterations = @ + 1]
             found == get_processor(counted, processor_number)
             sized == IF ~Active(found) THEN found
                      ELSE [found EXCEPT !.module.buffer_address = rsi,
                                         !.module.buffer_size = rdi]
         IN  reset_and_run(save_micro_checkpoint(sized), processor_number)
    ELSE continue_simulation_alone(
             [w EXCEPT !.module.iterations = @ + 1,
                       !.module.stop_reason = None])
\* Module::on_simulation_stopped, the Magic::Start branch
on_magic_start(w, processor_number, rsi, rdi) ==
    IF w.module.iterations = 0
    THEN LET counted == [w EXCEPT !.module.iterations = @ + 1]
             found == get_processor(counted, processor_number)
             sized == IF ~Active(found) THEN found
                      ELSE [found EXCEPT !.module.buffer_address = rsi,
                                         !.module.buffer_size = rdi]
         IN  reset_and_run(save_micro_checkpoint(sized), processor_number)
    ELSE continue_simulation_alone(
             [w EXCEPT !.module.iterations = @ + 1,
                       !.module.stop_reason = None,
                       !.module.last_start_processor_number = processor_number])

\* the Magic::Stop branch that reports the reason as it was recorded
on_magic_stop_not_enriched(w, reason, rsi) ==
    LET found == get_processor(w, reason.proc)
        read == IF Active(found) THEN [found EXCEPT !.mon.stop.rsi = rsi] ELSE found
    IN  reset_and_run(send_msg(read, Stopped(reason, w.mon.cur_run)), reason.proc)
\* Module::on_simulation_stopped, the Magic::Stop branch
on_magic_stop(w, reason, rsi) ==
    LET found == get_processor(w, reason.proc)
        read == IF Active(found) THEN [found EXCEPT !.mon.stop.rsi = rsi] ELSE found
        magic == MagicStop(reason.code, rsi, reason.proc)
    IN  reset_and_run(send_msg(read, Stopped(magic, w.mon.cur_run)), reason.proc)

\* the match on the reason with Error reported like a crash
on_stop_reason_error_reported(w, reason, rsi, rdi) ==
    CASE reason.tag = "Magic" /\ reason.kind = "Start" ->
             on_magic_start(w, reason.proc, rsi, rdi)
      [] reason.tag = "Magic" /\ reason.kind = "Stop" ->
             on_magic_stop(w, reason, rsi)
      [] reason.tag = "TimeOut" ->
             reset_and_run(send_msg(w, Stopped(TimeOut, w.mon.cur_run)),
                           w.module.last_start_processor_number)
      [] OTHER ->
             reset_and_run(send_msg(w, Stopped(reason, w.mon.cur_run)), reason.proc)
\* the match on the reason with every crash reported as a triple fault
on_stop_reason_crash_relabelled(w, reason, rsi, rdi) ==
    CASE reason.tag = "Magic" /\ reason.kind = "Start" ->
             on_magic_start(w, reason.proc, rsi, rdi)
      [] reason.tag = "Magic" /\ reason.kind = "Stop" ->
             on_magic_stop(w, reason, rsi)
      [] reason.tag = "SimulationExit" ->
             reset_and_run(send_msg(w, Stopped(reason, w.mon.cur_run)), reason.proc)
      [] reason.tag = "Crash" ->
             reset_and_run(send_msg(w, Stopped(Crash(-1, reason.proc), w.mon.cur_run)),
                           reason.proc)
      [] reason.tag = "TimeOut" ->
             reset_and_run(send_msg(w, Stopped(TimeOut, w.mon.cur_run)),
                           w.module.last_start_processor_number)
      [] OTHER -> quit(w, 1)
\* Module::on_simulation_stopped, after the reason is resolved
on_stop_reason(w, reason, rsi, rdi) ==
    CASE reason.tag = "Magic" /\ reason.kind = "Start" ->
             on_magic_start(w, reason.proc, rsi, rdi)
      [] reason.tag = "Magic" /\ reason.kind = "Stop" ->
             on_magic_stop(w, reason, rsi)
      [] reason.tag \in {"SimulationExit", "Crash"} ->
             reset_and_run(send_msg(w, Stopped(reason, w.mon.cur_run)), reason.proc)
      [] reason.tag = "TimeOut" ->
             reset_and_run(send_msg(w, Stopped(TimeOut, w.mon.cur_run)),
                           w.module.last_start_processor_number)
      [] OTHER -> quit(w, 1)

\* The reasons the detector can hold when the simulation stops: none, or one
\* it raised for a processor it was given; a Crash for a fault it listens to.
DetectorReasons ==
    {None, TimeOut}
        \cup {SimulationExit(p) : p \in module.processors}
        \cup {Error(p) : p \in module.processors}
        \cup {Crash(f, p) : f \in module.detector.faults, p \in module.processors}

\* the resolution that prefers the module's pending reason
resolve_pending_first(detector_reason, stop_reason) ==
    IF stop_reason # None THEN stop_reason ELSE detector_reason
\* Module::on_simulation_stopped, the resolution of the reason
resolve(detector_reason, stop_reason) ==
    IF detector_reason # None THEN detector_reason ELSE stop_reason

\* the callback that notifies the subsystems before it resolves the reason
on_simulation_stopped_notify_first(detector_reason, rsi, rdi) ==
    /\ mctl.pc = "host"
    /\ target.sim \in {"running", "breaking"}
    /\ mon.stops < MaxStops
    /\ LET w == [Begin(World) EXCEPT !.target.sim = "stopped", !.mon.stops = @ + 1]
           reason == resolve(detector_reason, w.module.stop_reason)
           fired == [w EXCEPT !.mon.stop = [fired |-> TRUE,
                                            detector |-> detector_reason,
                                            pending |-> w.module.stop_reason,
                                            reason |-> reason,
                                            notified |-> TRUE,
                                            rsi |-> -1]]
       IN  IF reason = None
           THEN Install(Fail(fired, "MissingStopReason"))
           ELSE Install(Finish(on_stop_reason(
                                   [fired EXCEPT !.mon.early_timeout =
                                        @ \/ (reason = TimeOut /\ w.module.iterations = 0)],
                                   reason, rsi, rdi),
                               "host"))
\* Module::on_simulation_stopped
on_simulation_stopped(detector_reason, rsi, rdi) ==
    /\ mctl.pc = "host"
    /\ target.sim \in {"running", "breaking"}
    /\ mon.stops < MaxStops
    /\ LET w == [Begin(World) EXCEPT !.target.sim = "stopped", !.mon.stops = @ + 1]
           reason == resolve(detector_reason, w.module.stop_reason)
           fired == [w EXCEPT !.mon.stop = [fired |-> TRUE,
                                            detector |-> detector_reason,
                                            pending |-> w.module.stop_reason,
                                            reason |-> reason,
                                            notified |-> FALSE,
                                            rsi |-> -1]]
       IN  IF reason = None
           THEN Install(Fail(fired, "MissingStopReason"))
           ELSE Install(Finish(on_stop_reason(
                                   [fired EXCEPT !.mon.stop.notified = TRUE,
                                                 !.mon.early_timeout =
                                        @ \/ (reason = TimeOut /\ w.module.iterations = 0)],
                                   reason, rsi, rdi),
                               "host"))

\* the callback that requests the stop whatever the code
on_magic_instruction_always_breaks(processor_number, parameter) ==
    /\ mctl.pc = "host"
    /\ target.sim = "running"
    /\ LET magic == MagicTryFrom(parameter, processor_number)
       IN  /\ module' = IF magic # None THEN [module EXCEPT !.stop_reason = magic]
                        ELSE module
           /\ target' = [target EXCEPT !.sim = "breaking"]
    /\ mon' = [LastStep(mon) EXCEPT
                          !.magic = [fired |-> TRUE, processor_number |-> processor_number,
                                     parameter |-> parameter]]
    /\ UNCHANGED <<client, cctl, c2m, m2c, mctl>>
\* Module::on_magic_instruction
on_magic_instruction(processor_number, parameter) ==
    /\ mctl.pc = "host"
    /\ target.sim = "running"
    /\ LET magic == MagicTryFrom(parameter, processor_number)
       IN  IF magic # None
           THEN /\ module' = [module EXCEPT !.stop_reason = magic]
                /\ target' = [target EXCEPT !.sim = "breaking"]
           ELSE UNCHANGED <<module, target>>
    /\ mon' = [LastStep(mon) EXCEPT
                          !.magic = [fired |-> TRUE, processor_number |-> processor_number,
                                     parameter |-> parameter]]
    /\ UNCHANGED <<client, cctl, c2m, m2c, mctl>>

\* Module::on_add_processor
on_add_processor(processor_number) ==
    /\ mctl.pc = "new"
    /\ module' = [module EXCEPT !.processors = @ \cup {processor_number}]
    /\ UNCHANGED <<client, cctl, c2m, m2c, mctl, target, mon>>

\* Module::on_add_fault
on_add_fault(fault) ==
    /\ mctl.pc = "new"
    /\ module' = [module EXCEPT !.detector.faults = @ \cup {fault}]
    /\ UNCHANGED <<client, cctl, c2m, m2c, mctl, target, mon>>

\* Module::on_start up to the receive in initialize
on_start(run) ==
    /\ mctl.pc = "new"
    /\ mctl' = [mctl EXCEPT !.pc = "init_recv", !.run = run]
    /\ UNCHANGED <<client, cctl, c2m, m2c, module, target, mon>>

\* Module::on_start from the arrival of the first message
on_start_initialize ==
    /\ mctl.pc = "init_recv"
    /\ c2m # <<>>
    /\ LET initialized == initialize(Begin(World))
           started == IF mctl.run THEN continue_simulation_alone(initialized)
                      ELSE initialized
       IN  Install(Finish(started, "host"))

\* The reset/run cycle, resumed by the arrival of Reset
on_reset ==
    /\ mctl.pc = "rr_reset"
    /\ c2m # <<>>
    /\ Install(reset_and_run_reset(Begin(World)))

\* The reset/run cycle, resumed by the arrival of Run
on_run ==
    /\ mctl.pc = "rr_run"
    /\ c2m # <<>>
    /\ Install(reset_and_run_run(Begin(World)))

\* start(False): the user continues the simulation by hand
manual_continue ==
    /\ mctl.pc = "host"
    /\ target.sim = "stopped"
    /\ target' = [target EXCEPT !.sim = "running"]
    /\ mon' = LastStep(mon)
    /\ UNCHANGED <<client, cctl, c2m, m2c, module, mctl>>

\* ------------------------------------------------------------ specification
Next ==
    \/ ClientInitialize
    \/ ClientReset
    \/ \E input \in Inputs : ClientRun(input)
    \/ ClientExit
    \/ ClientReply
    \/ \E p \in Procs : on_add_processor(p)
    \/ \E f \in Faults : on_add_fault(f)
    \/ \E run \in BOOLEAN : on_start(run)
    \/ on_start_initialize
    \/ \E p \in Procs, parameter \in MagicParameters : on_magic_instruction(p, parameter)
    \/ \E d \in DetectorReasons, rsi \in RegValues, rdi \in BufferSizes :
           on_simulation_stopped(d, rsi, rdi)
    \/ on_reset
    \/ on_run
    \/ manual_continue

Spec == Init /\ [][Next]_vars

\* A client blocked in a receive returns as soon as a message is there or the
\* channel is disconnected: its receive is not postponed forever.
LiveSpec == Spec /\ WF_vars(ClientReply)

\* The session of the module doc example: initialize, then any number of
\* (reset, run), then exit, each call made after the one before it succeeded.
SessionCall(call) ==
    CASE call = "initialize" -> cctl.call = "none"
      [] call = "reset" -> cctl.call \in {"initialize", "run"} /\ cctl.res = "ok"
      [] call = "run" -> cctl.call = "reset" /\ cctl.res = "ok"
      [] OTHER -> cctl.call \in {"initialize", "run"} /\ cctl.res = "ok"

SessionNext ==
    \/ SessionCall("initialize") /\ ClientInitialize
    \/ SessionCall("reset") /\ ClientReset
    \/ \E input \in Inputs : SessionCall("run") /\ ClientRun(input)
    \/ SessionCall("exit") /\ ClientExit
    \/ ClientReply
    \/ \E p \in Procs : on_add_processor(p)
    \/ \E f \in Faults : on_add_fault(f)
    \/ \E run \in BOOLEAN : on_start(run)
    \/ on_start_initialize
    \/ \E p \in Procs, parameter \in MagicParameters : on_magic_instruction(p, parameter)
    \/ \E d \in DetectorReasons, rsi \in RegValues, rdi \in BufferSizes :
           on_simulation_stopped(d, rsi, rdi)
    \/ on_reset
    \/ on_run
    \/ manual_continue

SessionSpec == Init /\ [][SessionNext]_vars

\* The client alone, with any peer at the other end of its two channels: the
\* peer takes what the client sent and may send any ModuleMessage at any time.
PeerReplies ==
    {Initialized, Ready} \cup {Stopped(TimeOut, mon.runs)}

PeerSend(msg) ==
    /\ m2c = <<>>
    /\ m2c' = <<msg>>
    /\ mon' = LastStep(mon)
    /\ UNCHANGED <<client, cctl, c2m, module, mctl, target>>

PeerRecv ==
    /\ c2m # <<>>
    /\ c2m' = Tail(c2m)
    /\ mon' = LastStep(mon)
    /\ UNCHANGED <<client, cctl, m2c, module, mctl, target>>

ReplyNext ==
    \/ ClientInitialize
    \/ ClientReset
    \/ \E input \in Inputs : ClientRun(input)
    \/ ClientExit
    \/ ClientReply
    \/ \E msg \in PeerReplies : PeerSend(msg)
    \/ PeerRecv

ReplySpec == Init /\ [][ReplyNext]_vars

\* ------------------------------------------------------------- properties
\* The transition table as the specification prints it: (from, event, to).
PrintedTable ==
    {<<"Uninitialized", "Initialize", "HalfInitialized">>,
     <<"HalfInitialized", "Initialized", "Initialized">>,
     <<"Initialized", "Reset", "HalfReady">>,
     <<"Stopped", "Reset", "HalfReady">>,
     <<"HalfReady", "Ready", "Ready">>,
     <<"Ready", "Run", "Running">>,
     <<"Running", "Stopped", "Stopped">>}
        \cup {<<s, "Exit", "Done">> : s \in States}
\* The same table with Done terminal: no event leaves it
TerminalTable == {row \in PrintedTable : row[1] # "Done"}
Listed(table, state, variant) == \E row \in table : row[1] = state /\ row[2] = variant

Events == Range(mon.log)
\* the side whose events the log holds has reported a protocol violation
Violation(side) ==
    IF side = "client" THEN cctl.pc = "idle" /\ cctl.res = "ProtocolViolation"
    ELSE mctl.pc = "failed" /\ mctl.err = "ProtocolViolation"
StateOf(side) == IF side = "client" THEN client.state ELSE module.state

\* C1: on either side, a message variant the transition table does not list
\* for the current state is rejected with ProtocolViolation, and the side's
\* protocol state is still the one it was.
C1_UnlistedRejected ==
    \A e \in Events :
        ~Listed(PrintedTable, e.from, e.msg) =>
            /\ ~e.ok
            /\ e.to = e.from
            /\ StateOf(e.side) = e.from
            /\ Violation(e.side)

\* C1 witness: the module's send of Stopped was rejected in Initialized, after
\* the client's run was rejected in Initialized
C1_Witness ==
    /\ \E e \in Events : e.side = "module" /\ e.msg = "Stopped" /\ e.from = "Initialized" /\ ~e.ok
    /\ cctl.call = "run" /\ cctl.res = "ProtocolViolation" /\ client.state = "Initialized"

\* a side's state machine follows table: it accepts the events table lists for
\* the state it is in, moves where table says, and accepts no other event
Follows(table) ==
    \A e \in Events :
        /\ e.ok <=> Listed(table, e.from, e.msg)
        /\ e.ok => <<e.from, e.msg, e.to>> \in table
        /\ ~e.ok => e.to = e.from

C3_InSync ==
    (/\ c2m = <<>>
     /\ m2c = <<>>
     /\ cctl.pc = "idle"
     /\ cctl.res = "ok"
     /\ cctl.call \in {"initialize", "reset", "run"})
        => /\ client.state = module.state
           /\ client.state = CASE cctl.call = "initialize" -> "Initialized"
                               [] cctl.call = "reset" -> "Ready"
                               [] OTHER -> "Stopped"

\* C3 witness: the second run of a session has returned
C3_Witness ==
    /\ c2m = <<>> /\ m2c = <<>>
    /\ cctl.pc = "idle" /\ cctl.res = "ok" /\ cctl.call = "run"
    /\ mon.runs = 2
    /\ mon.ret_run = 2

\* C4: in a session initialize, (reset, run)*, exit no call is refused by
\* the protocol, a call fails only when the module has terminated, and after
\* exit the client's protocol state is Done.
C4_SessionEndsDone ==
    /\ cctl.res \notin {"ProtocolViolation", "UnexpectedReply"}
    /\ cctl.res = "TransportFailure" => ModuleTerminated
    /\ cctl.call = "exit" => client.state = "Done"

\* C4 witness: exit has succeeded after two rounds of reset and run
C4_Witness ==
    /\ cctl.call = "exit" /\ cctl.res = "ok"
    /\ client.state = "Done"
    /\ mon.runs = 2 /\ mon.ret_run = 2

ClientSends == {e \in Events : e.side = "client" /\ e.dir = "send"}

C6_RejectedSendNotTransmitted ==
    [][\A e \in Range(mon'.log) :
           (e.dir = "send" /\ ~e.ok) =>
               /\ e.side = "client" => c2m' = c2m /\ cctl'.res = "ProtocolViolation"
               /\ e.side = "module" => m2c' = m2c /\ mctl'.pc = "failed"]_vars

\* C6 witness: the module's Stopped was rejected while the client waits for
\* Ready, and the channel to the client is empty
C6_Witness ==
    /\ \E e \in Events : e.side = "module" /\ e.dir = "send" /\ e.msg = "Stopped" /\ ~e.ok
    /\ cctl.pc = "wait_ready"
    /\ m2c = <<>>

\* C7: the Stopped messages sent never outnumber the Run messages received, a
\* Run is received between any two Stopped, and the Stopped a run call returns
\* was produced for the Run that call sent.
C7_StoppedAnswersRun ==
    /\ mon.stopped_sent <= mon.runs_received
    /\ mon.stopped_sent > 0 => mon.stopped_gap >= 1
    /\ (cctl.pc = "idle" /\ cctl.call = "run" /\ cctl.res = "ok") => mon.ret_run = mon.runs

\* C7 witness: the second Stopped of a session has been returned by run
C7_Witness ==
    /\ mon.stopped_sent = 2
    /\ mon.runs_received = 2
    /\ cctl.pc = "idle" /\ cctl.call = "run" /\ cctl.res = "ok"

\* C8 as claimed: once a stop has been classified as Magic::Start, exactly
\* one snapshot has been created, for the rest of the session.
C8_FirstStartSnapshots ==
    module.iterations >= 1 => mon.snapshots = 1

\* C8 as amended: a session creates at most one snapshot. The first stop
\* classified as Magic::Start creates it, unless its handler fails before the
\* save because the processor that executed the marker is not registered, and
\* then the module handles no further stop; no later Magic::Start creates one.
C8_AtMostOneSnapshot ==
    /\ mon.snapshots <= 1
    /\ module.iterations = 0 => mon.snapshots = 0
    /\ module.iterations >= 1 =>
           \/ mon.snapshots = 1
           \/ /\ module.iterations = 1
              /\ mctl.pc = "failed"
              /\ mctl.err = "NoProcessor"
              /\ module.stop_reason.proc \notin module.processors

\* C8 witness: a later Magic::Start has been handled and the session still
\* holds the one snapshot of the first
C8_Witness ==
    /\ module.iterations = 2
    /\ mon.snapshots = 1
    /\ target.snapshot.taken
    /\ target.sim = "running"

\* the Run at the head of the channel is received and accepted in this step
RunHandled ==
    /\ mctl.pc = "rr_run"
    /\ c2m # <<>>
    /\ Head(c2m).type = "Run"
    /\ c2m' = Tail(c2m)
    /\ module'.state = "Running"

\* C9: for every Run(input) the reset/run cycle handles, the target memory
\* afterwards holds the first min(len(input), buffer_size) bytes of input at
\* the buffer address and is otherwise as the restore left it, whatever the
\* length of input.
C9_TruncatedInputWritten ==
    [][RunHandled =>
          LET input == Head(c2m).input
              n == Min(Len(input), module.buffer_size)
          IN  \A a \in Addrs :
                  target'.mem[a] =
                      IF module.buffer_address <= a /\ a < module.buffer_address + n
                      THEN input[a - module.buffer_address + 1]
                      ELSE target.mem[a]]_vars

\* C10: once the simulation has stopped with TimeOut before any Magic::Start,
\* the module has sent Stopped(TimeOut) and is in the reset/run cycle.
C10_EarlyTimeOutReported ==
    mon.early_timeout =>
        /\ mon.stopped_sent >= 1
        /\ mctl.pc \in {"rr_reset", "rr_run", "host", "active"}

\* a reply of a variant other than the awaited one is taken from the channel
WrongReply ==
    /\ cctl.pc \in {"wait_initialized", "wait_ready", "wait_stopped"}
    /\ m2c # <<>>
    /\ Head(m2c).type # Awaited(cctl.pc)
    /\ m2c' = Tail(m2c)

StoppedWith(tag) == mon'.stop.fired /\ mon'.stop.reason.tag = tag

\* C12: a stop resolved to Error sends no message, changes no protocol
\* state, restores no snapshot, leaves the target stopped and ends the
\* process with status 1.
C12_ErrorQuits ==
    [][StoppedWith("Error") =>
          /\ m2c' = m2c
          /\ module'.state = module.state
          /\ mon'.restores = mon.restores
          /\ mon'.stopped_sent = mon.stopped_sent
          /\ target'.sim = "stopped"
          /\ mctl'.pc = "quit1"]_vars

\* C12 witness: a run was in progress when the stop resolved to Error, and
\* the module has quit with status 1 while the client waits for Stopped
C12_Witness ==
    /\ mon.stop.fired /\ mon.stop.reason.tag = "Error"
    /\ mctl.pc = "quit1"
    /\ module.state = "Running"
    /\ cctl.pc = "wait_stopped"
    /\ m2c = <<>>

\* the module has terminated without the reply a blocked client call waits for
Orphaned ==
    /\ ModuleTerminated
    /\ cctl.pc \in {"wait_initialized", "wait_ready", "wait_stopped"}
    /\ m2c = <<>>

ExitReceived ==
    /\ mctl.pc \in {"init_recv", "rr_reset", "rr_run"}
    /\ c2m # <<>>
    /\ Head(c2m).type = "Exit"
    /\ c2m' = Tail(c2m)

\* C14: wherever the module is blocked in a receive, Exit makes it quit with
\* status 0 with its protocol state untouched, and from then on nothing is
\* sent, restored, written or resumed.
C14_ExitQuits ==
    [][/\ ExitReceived =>
              /\ mctl'.pc = "quit0"
              /\ module' = module
              /\ m2c' = m2c
              /\ target' = target
              /\ mon'.restores = mon.restores
              /\ mon'.log = <<>>
       /\ mctl.pc = "quit0" =>
              /\ mctl' = mctl
              /\ module' = module
              /\ m2c' = m2c
              /\ target' = target
              /\ mon'.restores = mon.restores]_vars

\* C14 witness: Exit arrived while the module waited for Run, after a restore,
\* and a later call of the client found the module gone
C14_Witness ==
    /\ mctl.pc = "quit0"
    /\ module.state = "Ready"
    /\ mon.restores = 1
    /\ client.state = "Done"
    /\ cctl.res = "ProtocolViolation"

\* C15: a simulation-stopped callback that finds no reason in the detector
\* and none pending in the module fails with MissingStopReason, and has
\* sent nothing, kept the protocol state, notified no subsystem and left the
\* target stopped.
C15_NoReasonFailsFirst ==
    [][(mon'.stop.fired /\ mon'.stop.detector = None /\ mon'.stop.pending = None) =>
          /\ mctl'.pc = "failed"
          /\ mctl'.err = "MissingStopReason"
          /\ m2c' = m2c
          /\ c2m' = c2m
          /\ module' = module
          /\ ~mon'.stop.notified
          /\ mon'.log = <<>>
          /\ target'.sim = "stopped"
          /\ target'.mem = target.mem
          /\ target'.snapshot = target.snapshot]_vars

\* C15 witness: the target stopped for no reason during a run, after the
\* reset/run cycle had cleared the pending reason
C15_Witness ==
    /\ mon.stop.fired /\ mon.stop.reason = None
    /\ mctl.err = "MissingStopReason"
    /\ module.state = "Running"
    /\ mon.runs_received = 1

Last(s) == s[Len(s)]

\* C16: the callback goes on with the detector's reason whenever the detector
\* has one, whatever reason is pending in the module, and with the pending
\* reason only when the detector has none: a Stopped it sends carries that
\* reason's tag, and a pending Magic::Start the detector overrides counts no
\* iteration.
C16_DetectorFirst ==
    [][mon'.stop.fired =>
          LET d == mon'.stop.detector
              p == mon'.stop.pending
              used == IF d # None THEN d ELSE p
          IN  /\ mon'.stop.reason = used
              /\ m2c' # m2c => Last(m2c').type = "Stopped"
                                /\ Last(m2c').reason.tag = used.tag
                                /\ Last(m2c').reason.proc = used.proc
              /\ (used.tag = "Error") <=> (mctl'.pc = "quit1")
              /\ module'.iterations # module.iterations =>
                     used.tag = "Magic" /\ used.kind = "Start"]_vars

\* C16 witness: a Stopped(Crash) was sent for a stop at which a Magic::Stop
\* was pending in the module
C16_Witness ==
    /\ mon.stop.fired
    /\ mon.stop.detector.tag = "Crash"
    /\ mon.stop.pending.tag = "Magic"
    /\ m2c # <<>>
    /\ Last(m2c).reason = mon.stop.detector

\* this step is a call of exit()
ExitCalled ==
    /\ cctl.pc = "idle"
    /\ cctl'.call = "exit"
    /\ mon'.log # <<>>
    /\ mon'.log[1].side = "client" /\ mon'.log[1].dir = "send" /\ mon'.log[1].msg = "Exit"

\* C17: exit() returns in the step that sends Exit, without a receive: the
\* client is not left waiting, the channel from the module is as it was, and
\* when the state machine accepts Exit the call succeeds with Exit transmitted.
C17_ExitDoesNotReceive ==
    [][ExitCalled =>
          /\ cctl'.pc = "idle"
          /\ m2c' = m2c
          /\ client.state # "Done" =>
                 /\ cctl'.res = "ok"
                 /\ client'.state = "Done"
                 /\ c2m' = Append(c2m, Exit)]_vars

\* C17 witness: exit has just succeeded while a message of the peer lies
\* unread in the channel
C17_Witness ==
    /\ cctl.pc = "idle" /\ cctl.call = "exit" /\ cctl.res = "ok"
    /\ mon.log # <<>>
    /\ mon.log[1].msg = "Exit"
    /\ m2c # <<>>

\* the Stopped(Crash) messages on their way to the client
CrashesInFlight ==
    {m2c[i].reason : i \in {j \in DOMAIN m2c : m2c[j].reason.tag = "Crash"}}

ResetStep == mctl.pc = "rr_reset" /\ c2m # <<>> /\ c2m' = Tail(c2m)
\* the module, blocked in the second receive of the cycle, takes a message
RunStep == mctl.pc = "rr_run" /\ c2m # <<>> /\ c2m' = Tail(c2m)

\* C19: the reset/run cycle goes Reset received and validated, snapshot
\* restored, Ready sent, Run received and validated, input written, pending
\* reason cleared, target resumed. Ready is sent only with the restore done,
\* the restore only with Reset validated, the target is resumed only with the
\* input written, and a cycle that returns successfully has done all of it.
C19_CycleOrder ==
    [][/\ (ResetStep /\ Head(c2m).type = "Reset") =>
              /\ Len(mon'.log) = 2
              /\ mon'.log[1].dir = "recv" /\ mon'.log[1].msg = "Reset" /\ mon'.log[1].ok
              /\ mon'.log[2].dir = "send" /\ mon'.log[2].msg = "Ready" /\ mon'.log[2].ok
              /\ mon'.restores = mon.restores + 1
              /\ target'.mem = target.snapshot.mem
              /\ m2c' = Append(m2c, Ready)
              /\ target'.sim = "stopped"
              /\ mctl'.pc = "rr_run"
       /\ (ResetStep /\ Head(c2m).type # "Reset") =>
              /\ mon'.restores = mon.restores
              /\ m2c' = m2c
              /\ mctl'.pc # "rr_run"
       /\ mon'.restores # mon.restores => ResetStep
       /\ (m2c' # m2c /\ m2c' # <<>> /\ Last(m2c').type = "Ready") => ResetStep
       /\ (mctl'.pc = "rr_run" /\ mctl.pc # "rr_run") => ResetStep
       /\ (RunStep /\ target'.sim = "running") =>
              /\ Head(c2m).type = "Run"
              /\ mon'.log # <<>> /\ mon'.log[1].msg = "Run" /\ mon'.log[1].ok
              /\ target'.mem = write_bytes(target.mem, module.buffer_address,
                                           truncate(Head(c2m).input, module.buffer_size))
              /\ target'.rdi.value = Min(Len(Head(c2m).input), module.buffer_size)
              /\ module'.stop_reason = None
              /\ mctl'.pc = "host"
       /\ (RunStep /\ mctl'.pc = "host") => target'.sim = "running"
       /\ RunStep => m2c' = m2c /\ mon'.restores = mon.restores]_vars

\* C19 witness: the second cycle of a session has completed: two restores,
\* two inputs received, the last one in memory and the target running
C19_Witness ==
    /\ mon.restores = 2
    /\ mon.runs_received = 2
    /\ mctl.pc = "host"
    /\ target.sim = "running"
    /\ module.stop_reason = None
    /\ target.mem # target.snapshot.mem

\* C20: whatever stops occur and in whatever order, no snapshot restore is
\* performed before the baseline snapshot has been created.
C20_RestoreAfterSnapshot ==
    mon.restores > 0 => (mon.snapshots > 0 /\ target.snapshot.taken)

\* C20 witness: the restore that follows a reported stop has been performed
\* on the snapshot of the first Magic::Start
C20_Witness ==
    /\ mon.restores = 2
    /\ mon.snapshots = 1
    /\ mon.stopped_sent = 1
    /\ mctl.pc = "rr_run"

\* C21: in every reset/run cycle that follows a reported stop, the processor
\* the cycle writes the input through is a registered one, for a TimeOut the
\* processor of the most recent Magic::Start, so that the cycle can complete.
C21_CycleOnRegisteredProcessor ==
    (mctl.pc \in {"rr_reset", "rr_run"} /\ mon.stopped_sent >= 1) =>
        mctl.processor_number \in module.processors

\* the target is executing: resumed, perhaps with a stop requested
Executing == target.sim \in {"running", "breaking"}

\* C22: the target executes only while the module is back in the host, never
\* while it blocks in a receive, and only with the module's protocol state
\* Initialized (resumed from on_start) or Running; every resume is made in one
\* of these two states.
C22_ExecutesOnlyInRunning ==
    /\ Executing =>
           /\ mctl.pc \notin {"init_recv", "rr_reset", "rr_run"}
           /\ module.state \in {"Initialized", "Running"}
           /\ module.state = "Initialized" => module.iterations = 0
    /\ mctl.pc \in {"init_recv", "rr_reset", "rr_run"} => target.sim = "stopped"
    /\ module.state \in {"HalfInitialized", "HalfReady", "Ready", "Stopped"} =>
           target.sim = "stopped"

\* C22 witness: the target executes, resumed by a later Magic::Start in
\* state Running, after a cycle in which it stood still in HalfReady and Ready
C22_Witness ==
    /\ Executing
    /\ module.state = "Running"
    /\ module.iterations = 2
    /\ mon.restores = 1
    /\ mctl.pc = "host"

\* the variant of the k-th message in Initialized, Ready, Stopped, Ready, ...
Expected(k) ==
    IF k = 1 THEN "Initialized" ELSE IF k % 2 = 0 THEN "Ready" ELSE "Stopped"

\* C23: the messages the module sends are, in order, Initialized, then Ready
\* and Stopped strictly alternating: the k-th message sent has the k-th
\* variant of that sequence, and a step sends at most one message.
C23_SendsAlternate ==
    [][/\ mon'.sent \in {mon.sent, mon.sent + 1}
       /\ mon'.sent = mon.sent + 1 =>
              /\ m2c' = Append(m2c, Last(m2c'))
              /\ Last(m2c').type = Expected(mon'.sent)
       /\ mon'.sent = mon.sent => (m2c' = m2c \/ m2c' = Tail(m2c))]_vars

\* C23 witness: the module has sent Initialized, Ready, Stopped, Ready, Stopped
C23_Witness ==
    /\ mon.sent = 5
    /\ mon.stopped_sent = 2
    /\ mon.restores = 2
    /\ mon.snapshots = 1

\* the simulation-stopped callback has just run for a Magic::Start that is
\* not the first of the session
LaterStart ==
    /\ mon'.stop.fired
    /\ mon'.stop.reason.tag = "Magic"
    /\ mon'.stop.reason.kind = "Start"
    /\ module.iterations >= 1

\* C24: a stop classified as Magic::Start after the first only counts the
\* iteration, clears the pending reason, records the processor and resumes
\* the target: nothing is sent or received, the protocol state, the buffer,
\* the snapshot and the target memory stay as they are, nothing is restored.
C24_LaterStartOnlyResumes ==
    [][LaterStart =>
          /\ m2c' = m2c
          /\ c2m' = c2m
          /\ mon'.log = <<>>
          /\ mon'.snapshots = mon.snapshots
          /\ mon'.restores = mon.restores
          /\ target' = [target EXCEPT !.sim = "running"]
          /\ module' = [module EXCEPT
                          !.iterations = @ + 1,
                          !.stop_reason = None,
                          !.last_start_processor_number = mon'.stop.reason.proc]
          /\ mctl'.pc = "host"]_vars

\* C24 witness: a Magic::Start of processor 1 was handled as a later start in
\* a session whose first start ran on processor 0
C24_Witness ==
    /\ mon.stop.fired
    /\ mon.stop.reason.tag = "Magic" /\ mon.stop.reason.kind = "Start"
    /\ mon.stop.reason.proc = 1
    /\ module.iterations = 2
    /\ module.last_start_processor_number = 1
    /\ mctl.processor_number = 0
    /\ target.sim = "running"

\* C25: the magic-instruction callback sends and receives nothing and leaves
\* the module's position, protocol state, counters, buffer, the snapshot and
\* the target memory alone. For the start or the stop marker it sets the
\* pending reason to that Magic with the triggering processor and requests
\* the stop; for any other code it changes nothing and requests no stop.
C25_MagicOnlyRecords ==
    [][mon'.magic.fired =>
          LET parameter == mon'.magic.parameter
              proc == mon'.magic.processor_number
          IN  /\ UNCHANGED <<client, cctl, c2m, m2c, mctl>>
              /\ mon'.snapshots = mon.snapshots
              /\ mon'.restores = mon.restores
              /\ mon'.sent = mon.sent
              /\ parameter \in {"start", "stop"} =>
                     /\ module' = [module EXCEPT !.stop_reason = module'.stop_reason]
                     /\ module'.stop_reason.tag = "Magic"
                     /\ module'.stop_reason.kind = (IF parameter = "start" THEN "Start"
                                                    ELSE "Stop")
                     /\ module'.stop_reason.proc = proc
                     /\ target' = [target EXCEPT !.sim = "breaking"]
              /\ parameter \notin {"start", "stop"} =>
                     /\ module' = module
                     /\ target' = target]_vars

\* C25 witness: the stop marker executed on processor 1 during a run is
\* pending and the stop is requested
C25_Witness ==
    /\ mon.magic.fired
    /\ mon.magic.parameter = "stop"
    /\ mon.magic.processor_number = 1
    /\ module.stop_reason = MagicStop("stop", -1, 1)
    /\ module.state = "Running"
    /\ target.sim = "breaking"

\* C26: the Stopped message sent for a Magic::Stop carries the code and the
\* processor of the recorded reason and, as payload, the value read from rsi
\* of that processor in the same callback; the payload is never absent.
C26_StopEnriched ==
    [][(/\ mon'.stop.fired
        /\ mon'.stop.reason.tag = "Magic"
        /\ mon'.stop.reason.kind = "Stop"
        /\ mon'.sent = mon.sent + 1) =>
          LET sent == Last(m2c').reason
              recorded == mon'.stop.reason
          IN  /\ Last(m2c').type = "Stopped"
              /\ sent.tag = "Magic" /\ sent.kind = "Stop"
              /\ sent.code = recorded.code
              /\ sent.proc = recorded.proc
              /\ sent.proc \in module.processors
              /\ sent.val = mon'.stop.rsi
              /\ sent.val \in RegValues
              /\ recorded.val = -1]_vars

\* C26 witness: the stop marker of processor 1 is reported with payload 1 to
\* a client blocked in run, the recorded reason having had none
C26_Witness ==
    /\ mon.stop.fired
    /\ mon.stop.reason = MagicStop("stop", -1, 1)
    /\ m2c = <<Stopped(MagicStop("stop", 1, 1), mon.cur_run)>>
    /\ cctl.pc = "wait_stopped"

\* C27: the target runs with no reason pending in the module: every resume
\* leaves the pending reason empty, and a reason is pending only from the
\* magic instruction that requested the current stop until that stop is
\* handled.
C27_ResumedWithoutPending ==
    /\ target.sim = "running" => module.stop_reason = None
    /\ target.sim = "breaking" => module.stop_reason.tag = "Magic"

\* C27 witness: the target runs its second input with nothing pending, the
\* first run having ended at a stop marker
C27_Witness ==
    /\ target.sim = "running"
    /\ module.stop_reason = None
    /\ module.state = "Running"
    /\ mon.stopped_sent = 1
    /\ mon.runs_received = 2
    /\ \E e \in Events : e.side = "module" /\ e.dir = "recv" /\ e.msg = "Run"

\* C28: in a cycle that writes its input, the size register of the cycle's
\* processor holds the number of bytes written, min(len(input), buffer_size),
\* which for an oversized input is the buffer size and not the input's length.
C28_SizeRegisterIsWrittenLength ==
    [][(RunStep /\ mctl'.pc = "host") =>
          LET input == mon'.input
              n == target'.rdi.value
              address == module.buffer_address
          IN  /\ input = Head(c2m).input
              /\ target'.rdi.proc = mctl.processor_number
              /\ target'.rdi.proc \in module.processors
              /\ n <= module.buffer_size
              /\ n <= Len(input)
              /\ n = module.buffer_size \/ n = Len(input)
              /\ \A a \in Addrs :
                     /\ (address <= a /\ a < address + n) =>
                            target'.mem[a] = input[a - address + 1]
                     /\ ~(address <= a /\ a < address + n) =>
                            target'.mem[a] = target.mem[a]]_vars

\* C28 witness: an input of two bytes was written to a buffer of one byte
\* and the size register holds 1
C28_Witness ==
    /\ Len(mon.input) = 2
    /\ module.buffer_size = 1
    /\ target.rdi.value = 1
    /\ target.mem[module.buffer_address] = 1
    /\ target.mem[module.buffer_address + 1] = 0
    /\ target.sim = "running"

ClientBlocked == cctl.pc # "idle" /\ m2c = <<>>

\* the module is blocked in a receive
ModuleReceiving == mctl.pc \in {"init_recv", "rr_reset", "rr_run"}

\* C30: the handshake has no deadlock: while the module process is alive, the
\* client and the module are never both blocked in a receive with both
\* channels empty, and whenever the client is blocked for a reply, the module
\* has a message to consume or the target is executing (the module sends in
\* the same callback that received, so it is never stopped short of a send).
C30_NoHandshakeDeadlock ==
    ~ModuleTerminated =>
        /\ ~(ClientBlocked /\ ModuleReceiving /\ c2m = <<>>)
        /\ ClientBlocked => (c2m # <<>> \/ Executing)

\* C30 witness: in a later cycle the client blocks in run() with both
\* channels empty while the target executes
C30_Witness ==
    /\ ~ModuleTerminated
    /\ ClientBlocked /\ cctl.pc = "wait_stopped"
    /\ c2m = <<>> /\ mctl.pc = "host"
    /\ Executing
    /\ mon.stopped_sent >= 1

\* ------------------------------------------------------- the fuzzing session
\* A magic instruction of the harness: it executes on a processor the module
\* was given.
HarnessMagic ==
    \E p \in module.processors, parameter \in MagicParameters :
        on_magic_instruction(p, parameter)

\* A stop of the harness: the callback finds a reason, and it is not Error.
HarnessStop ==
    \E d \in {r \in DetectorReasons : r.tag # "Error"}, rsi \in RegValues, rdi \in BufferSizes :
        /\ resolve(d, module.stop_reason) # None
        /\ on_simulation_stopped(d, rsi, rdi)

\* The fuzzing loop: the client calls initialize and then reset and run in
\* turn, each after the call before it succeeded, and never exits.
HarnessNext ==
    \/ SessionCall("initialize") /\ ClientInitialize
    \/ SessionCall("reset") /\ ClientReset
    \/ \E input \in Inputs : SessionCall("run") /\ ClientRun(input)
    \/ ClientReply
    \/ \E p \in Procs : on_add_processor(p)
    \/ \E f \in Faults : on_add_fault(f)
    \/ \E run \in BOOLEAN : on_start(run)
    \/ on_start_initialize
    \/ HarnessMagic
    \/ HarnessStop
    \/ on_reset
    \/ on_run
    \/ manual_continue

\* The module is blocked in a receive and its message is there: the enabling
\* condition of on_start_initialize, on_reset and on_run.
ModuleCanReceive == ModuleReceiving /\ c2m # <<>>

\* The module's receive returns: the step of on_start_initialize, on_reset or
\* on_run.
ModuleReceives == on_start_initialize \/ on_reset \/ on_run

\* The target can stop: the enabling condition of HarnessStop (a TimeOut is
\* always among the reasons the detector can hold).
TargetCanStop == mctl.pc = "host" /\ Executing /\ mon.stops < MaxStops

\* Fair scheduling: a receive that has a message returns, on the client as on
\* the module, and an executing target comes to a stop. The last two are the
\* weak fairness of ModuleReceives and of HarnessStop with the enabling
\* conditions written out.
HarnessSpec ==
    /\ Init /\ [][HarnessNext]_vars
    /\ WF_vars(ClientReply)
    /\ ([]<>~ModuleCanReceive \/ []<><<ModuleReceives>>_vars)
    /\ ([]<>~TargetCanStop \/ []<><<HarnessStop>>_vars)

\* the harness start was reached: the first Magic::Start took the snapshot
HarnessStarted == mon.snapshots >= 1

\* the last call of the client returned with its reply
Answered(call) == cctl.pc = "idle" /\ cctl.call = call /\ cctl.res = "ok"

\* C31: in the fuzzing loop under fair scheduling, once the harness start is
\* reached every reset() is eventually answered by Ready and every run() is
\* eventually answered by Stopped, one Stopped a Run at most, as long as the
\* target has a stop left to make (MaxStops).
C31_EveryCallReturns ==
    /\ (cctl.pc = "wait_ready" /\ HarnessStarted)
           ~> (Answered("reset") \/ mon.stops = MaxStops)
    /\ (cctl.pc = "wait_stopped")
           ~> (Answered("run") \/ mon.stops = MaxStops)
    /\ [](mon.stopped_sent <= mon.runs_received)

====
